---- MODULE Spec2Model ----
(***************************************************************************)
(* The treasury sweep server: GET /health and POST /api/sweep/eth.         *)
(* Two builds of the same server are in the repository: src/index.js       *)
(* (ethers v6 calls, bigint arithmetic) and src/unnamed/part_000 (ethers   *)
(* v5 calls, BigNumber arithmetic).  `build` says which one is running.    *)
(* A request handler is an async function: it runs without interruption    *)
(* up to its next await, so every action below is one such stretch.        *)
(***************************************************************************)
EXTENDS Integers, Sequences, FiniteSets

\* ---------------------------------------------------------------- bounds
MaxRequests == 2
MaxGasPrice == 2

\* ------------------------------------------------------------- constants
GasLimit == 21000
Decimals == 18

\* ------------------------------------------------------ JavaScript values
Undefined == "<undefined>"

Builds == {"index.js", "part_000"}

\* a value is falsy for || and ! when it is undefined or the empty string
Truthy(x) == x \notin {Undefined, ""}

\* a || b
JsOr(a, b) == IF Truthy(a) THEN a ELSE b

\* ------------------------------------------------------------- addresses
Placeholder == "0xRecipientAddressGoesHere"
WalletPlaceholder == "0xTreasuryWalletPlaceholder"
AddrDefault == "0x1111111111111111111111111111111111111111"
AddrOther == "0x2222222222222222222222222222222222222222"
AddrTreasury == "0x3333333333333333333333333333333333333333"

\* ethers.isAddress / ethers.utils.isAddress: 0x followed by 40 hex digits
WellFormed == {AddrDefault, AddrOther, AddrTreasury}

isAddressAcceptAll(a) == TRUE

isAddress(a) == a \in WellFormed

\* what process.env may hold for each variable, and what a body may carry
KeyEnv == {Undefined, "", "0xKEY"}
DestEnv == {Undefined, AddrDefault}
BodyDestinations == {Undefined, "", AddrOther, "not-an-address"}

\* --------------------------------------------------- decimal formatting
RECURSIVE DigitsOf(_)
DigitsOf(n) == IF n < 10 THEN <<n>> ELSE Append(DigitsOf(n \div 10), n % 10)

RECURSIVE PadLeft(_, _)
PadLeft(s, n) == IF Len(s) >= n THEN s ELSE PadLeft(<<0>> \o s, n)

RECURSIVE PadRight(_, _)
PadRight(s, n) == IF Len(s) >= n THEN s ELSE PadRight(Append(s, 0), n)

RECURSIVE StripZeros(_)
StripZeros(s) ==
    IF Len(s) > 1 /\ s[Len(s)] = 0 THEN StripZeros(SubSeq(s, 1, Len(s) - 1)) ELSE s

RECURSIVE ValueOf(_)
ValueOf(s) == IF s = <<>> THEN 0 ELSE 10 * ValueOf(SubSeq(s, 1, Len(s) - 1)) + s[Len(s)]

\* formatEther(wei): the decimal string "whole.frac" of wei / 10^18, the
\* fraction cut after its last non-zero digit but never empty ("1.0")
formatEtherTruncating(wei) ==
    LET d == PadLeft(DigitsOf(wei), Decimals + 1)
        k == Len(d) - Decimals
    IN  [whole |-> SubSeq(d, 1, k), frac |-> SubSeq(d, k + 1, k + 4)]

formatEther(wei) ==
    LET d == PadLeft(DigitsOf(wei), Decimals + 1)
        k == Len(d) - Decimals
    IN  [whole |-> SubSeq(d, 1, k), frac |-> StripZeros(SubSeq(d, k + 1, Len(d)))]

\* parseEther(string): the wei a decimal ether string stands for
parseEther(str) == ValueOf(str.whole \o PadRight(str.frac, Decimals))

\* ---------------------------------------------------------------- errors
\* what a rejected chain-client call throws: an Error, with ethers' reason
\* when the provider supplied one
Errors ==
    { [reason |-> "insufficient funds", message |-> "insufficient funds for gas"],
      [reason |-> Undefined, message |-> "could not detect network"],
      [reason |-> Undefined, message |-> ""] }

NoError == [reason |-> Undefined, message |-> Undefined]

\* String(err) of an Error: its name, then ": message" when it has one
StringOf(err) == IF Truthy(err.message) THEN "Error: " \o err.message ELSE "Error"

detailsIndexMessageFirst(err) == JsOr(JsOr(err.message, err.reason), StringOf(err))

detailsIndex(err) == JsOr(JsOr(err.reason, err.message), StringOf(err))

detailsPart(err) == JsOr(err.reason, err.message)

\* ------------------------------------------------------------------ state
VARIABLES build, PRIVATE_KEY, DESTINATION_ADDRESS, treasuryWallet,
          chainBalance, txCount, req, health

vars == <<build, PRIVATE_KEY, DESTINATION_ADDRESS, treasuryWallet,
          chainBalance, txCount, req, health>>

config == <<build, PRIVATE_KEY, DESTINATION_ADDRESS, treasuryWallet>>
chain == <<chainBalance, txCount>>

Requests == 1..MaxRequests

\* the quotes provider.getGasPrice() may resolve to
GasPrices == 1..MaxGasPrice

\* what the wallet may hold at startup: nothing, a wei less than one transfer
\* costs at the lowest quote, exactly that cost, exactly the cost at the
\* highest quote, and a wei more than that
Balances ==
    {0, GasLimit - 1, GasLimit, MaxGasPrice * GasLimit, MaxGasPrice * GasLimit + 1}

NoTx == [to |-> Undefined, value |-> 0, gasPrice |-> 0, gasLimit |-> 0]

NoBody == [x \in {} |-> Undefined]

IdleRequest ==
    [pc |-> "idle", body |-> Undefined, destination |-> Undefined,
     balance |-> 0, gasPrice |-> 0, reads |-> 0,
     balanceReads |-> 0, gasReads |-> 0, sendCalls |-> 0, tx |-> NoTx,
     threwAt |-> "none", err |-> NoError,
     responses |-> 0, status |-> 0, json |-> NoBody]

Wallet(key) ==
    IF ~Truthy(key)
    THEN [address |-> WalletPlaceholder, placeholder |-> TRUE]
    ELSE [address |-> AddrTreasury, placeholder |-> FALSE]

Init ==
    /\ build \in Builds
    /\ PRIVATE_KEY \in KeyEnv
    /\ \E d \in DestEnv : DESTINATION_ADDRESS = JsOr(d, Placeholder)
    /\ treasuryWallet = Wallet(PRIVATE_KEY)
    /\ chainBalance \in Balances
    /\ txCount = 0
    /\ req = [r \in Requests |-> IdleRequest]
    /\ health = {}

\* res.status(s).json(b) followed by the handler's return
Respond(r, s, b) ==
    [r EXCEPT !.pc = "done", !.responses = @ + 1, !.status = s, !.json = b]

\* ---------------------------------------------------------- response texts
TextIndex ==
    [noKey |-> "Service Unavailable: Missing private key.",
     invalid |-> "Invalid destination address.",
     tooLow |-> "Balance is too low to cover gas.",
     zero |-> "Sweep amount is zero after gas deduction.",
     submitted |-> "Sweep transaction submitted.",
     failed |-> "Sweep transaction failed."]

TextPart ==
    [noKey |-> "Service Unavailable: Server is not configured for sweeping (private key missing).",
     invalid |-> "Invalid destination address provided.",
     tooLow |-> "Balance is too low to cover the transaction gas cost.",
     zero |-> "Calculated sweep amount is zero after deducting gas.",
     submitted |-> "ETH sweep transaction submitted successfully.",
     failed |-> "Failed to execute ETH sweep transaction."]

Text == IF build = "index.js" THEN TextIndex ELSE TextPart

\* ------------------------------------------------------- sweep calculator
gasCostOf(gasPrice) == gasPrice * GasLimit

\* balance < gasCost / balance.lt(gasCost)
tooLow(balance, gasCost) == balance < gasCost

amountToSendKeepingGasTwice(balance, gasCost) == balance - 2 * gasCost

amountToSendOf(balance, gasCost) == balance - gasCost

isZeroIndexStrict(amountToSend) == amountToSend < 0

\* amountToSend <= 0n
isZeroIndex(amountToSend) == amountToSend <= 0

\* amountToSend.isZero()
isZeroPart(amountToSend) == amountToSend = 0

isZero(amountToSend) ==
    IF build = "index.js" THEN isZeroIndex(amountToSend) ELSE isZeroPart(amountToSend)

details(err) == IF build = "index.js" THEN detailsIndex(err) ELSE detailsPart(err)

\* the catch block: one 500 answer with the details of what was thrown
Catch(r, at, e) ==
    Respond([r EXCEPT !.threwAt = at, !.err = e], 500,
            [error |-> Text.failed, details |-> details(e)])

\* the three 200 answers of the sweep handler
tooLowBody(balance, gasCost) ==
    [message |-> Text.tooLow,
     balance |-> formatEther(balance),
     gasCost |-> formatEther(gasCost)]

zeroBody(balance) ==
    [message |-> Text.zero, balance |-> formatEther(balance)]

submittedBodyWithoutLink(hash, amountToSend, destination) ==
    [message |-> Text.submitted,
     transactionHash |-> hash,
     amountSent |-> formatEther(amountToSend),
     destination |-> destination]

submittedBody(hash, amountToSend, destination) ==
    [message |-> Text.submitted,
     transactionHash |-> hash,
     amountSent |-> formatEther(amountToSend),
     destination |-> destination,
     networkLink |-> "https://etherscan.io/tx/" \o hash]

\* ------------------------------------------------------------------ GET /health
HealthBodyKeyDefined ==
    [status |-> "ok", version |-> "1.0.0",
     walletAddress |-> treasuryWallet.address,
     isSweepConfigured |-> (PRIVATE_KEY # Undefined)]

HealthBody ==
    [status |-> "ok", version |-> "1.0.0",
     walletAddress |-> treasuryWallet.address,
     isSweepConfigured |-> Truthy(PRIVATE_KEY)]

Health ==
    /\ health' = health \cup {[status |-> 200, json |-> HealthBody]}
    /\ UNCHANGED <<config, chain, req>>

\* ------------------------------------------------------ POST /api/sweep/eth
\* handler entry up to the first await: the key check, the destination,
\* its validation, and the call of treasuryWallet.getBalance()
PostToDefaultOnly(r, dest) ==
    /\ req[r].pc = "idle"
    /\ \A q \in Requests : q < r => req[q].pc # "idle"
    /\ LET destination == DESTINATION_ADDRESS
           q0 == [req[r] EXCEPT !.body = dest]
           q1 == [q0 EXCEPT !.destination = destination]
       IN  req' = [req EXCEPT ![r] =
                IF ~Truthy(PRIVATE_KEY)
                THEN Respond(q0, 503, [error |-> Text.noKey])
                ELSE IF ~isAddress(destination)
                THEN Respond(q1, 400, [error |-> Text.invalid])
                ELSE [q1 EXCEPT !.pc = "getBalance", !.balanceReads = @ + 1]]
    /\ UNCHANGED <<config, chain, health>>

PostValidatingFirst(r, dest) ==
    /\ req[r].pc = "idle"
    /\ \A q \in Requests : q < r => req[q].pc # "idle"
    /\ LET destination == JsOr(dest, DESTINATION_ADDRESS)
           q0 == [req[r] EXCEPT !.body = dest, !.destination = destination]
       IN  req' = [req EXCEPT ![r] =
                IF ~isAddress(destination)
                THEN Respond(q0, 400, [error |-> Text.invalid])
                ELSE IF ~Truthy(PRIVATE_KEY)
                THEN Respond(q0, 503, [error |-> Text.noKey])
                ELSE [q0 EXCEPT !.pc = "getBalance", !.balanceReads = @ + 1]]
    /\ UNCHANGED <<config, chain, health>>

Post(r, dest) ==
    /\ req[r].pc = "idle"
    /\ \A q \in Requests : q < r => req[q].pc # "idle"
    /\ LET destination == JsOr(dest, DESTINATION_ADDRESS)
           q0 == [req[r] EXCEPT !.body = dest]
           q1 == [q0 EXCEPT !.destination = destination]
       IN  req' = [req EXCEPT ![r] =
                IF ~Truthy(PRIVATE_KEY)
                THEN Respond(q0, 503, [error |-> Text.noKey])
                ELSE IF ~isAddress(destination)
                THEN Respond(q1, 400, [error |-> Text.invalid])
                ELSE [q1 EXCEPT !.pc = "getBalance", !.balanceReads = @ + 1]]
    /\ UNCHANGED <<config, chain, health>>

\* the balance arrives; the handler goes on to call provider.getGasPrice()
GetBalanceResolves(r) ==
    /\ req[r].pc = "getBalance"
    /\ req' = [req EXCEPT ![r] =
            [@ EXCEPT !.balance = IF treasuryWallet.placeholder THEN 0 ELSE chainBalance,
                      !.reads = 1, !.gasReads = @ + 1, !.pc = "getGasPrice"]]
    /\ UNCHANGED <<config, chain, health>>

GetBalanceThrows(r, e) ==
    /\ req[r].pc = "getBalance"
    /\ req' = [req EXCEPT ![r] = Catch(@, "getBalance", e)]
    /\ UNCHANGED <<config, chain, health>>

\* the gas price arrives; the handler computes the quote and either reports
\* a skip or builds the transaction and calls treasuryWallet.sendTransaction
GetGasPriceResolves(r, quote) ==
    /\ req[r].pc = "getGasPrice"
    /\ LET balance == req[r].balance
           gasPrice == quote
           gasCost == gasCostOf(gasPrice)
           amountToSend == amountToSendOf(balance, gasCost)
           q0 == [req[r] EXCEPT !.gasPrice = gasPrice, !.reads = 2]
       IN  req' = [req EXCEPT ![r] =
                IF tooLow(balance, gasCost)
                THEN Respond(q0, 200, tooLowBody(balance, gasCost))
                ELSE IF isZero(amountToSend)
                THEN Respond(q0, 200, zeroBody(balance))
                ELSE [q0 EXCEPT !.tx = [to |-> q0.destination, value |-> amountToSend,
                                        gasPrice |-> gasPrice, gasLimit |-> GasLimit],
                                !.sendCalls = @ + 1, !.pc = "sendTransaction"]]
    /\ UNCHANGED <<config, chain, health>>

GetGasPriceThrows(r, e) ==
    /\ req[r].pc = "getGasPrice"
    /\ req' = [req EXCEPT ![r] = Catch(@, "getGasPrice", e)]
    /\ UNCHANGED <<config, chain, health>>

DigitChar == <<"0", "1", "2", "3", "4", "5", "6", "7", "8", "9">>

\* the hash the node gives the wallet's n-th transaction
HashOf(n) == "0xtx" \o DigitChar[n + 1]

\* the node takes the transaction (the wallet can pay value plus fee) and
\* the handler answers with the hash
SendTransactionResolves(r) ==
    /\ req[r].pc = "sendTransaction"
    /\ ~treasuryWallet.placeholder
    /\ LET tx == req[r].tx
           spent == tx.value + tx.gasPrice * tx.gasLimit
           hash == HashOf(txCount)
       IN  /\ chainBalance >= spent
           /\ chainBalance' = chainBalance - spent
           /\ txCount' = txCount + 1
           /\ req' = [req EXCEPT ![r] =
                    Respond(@, 200, submittedBody(hash, tx.value, @.destination))]
    /\ UNCHANGED <<config, health>>

SendTransactionRetries(r, e) ==
    /\ req[r].pc = "sendTransaction"
    /\ req[r].sendCalls <= 1
    /\ req' = [req EXCEPT ![r] = [@ EXCEPT !.sendCalls = @ + 1]]
    /\ UNCHANGED <<config, chain, health>>

SendTransactionThrows(r, e) ==
    /\ req[r].pc = "sendTransaction"
    /\ req' = [req EXCEPT ![r] = Catch(@, "sendTransaction", e)]
    /\ UNCHANGED <<config, chain, health>>

Next ==
    \/ Health
    \/ \E r \in Requests, dest \in BodyDestinations : Post(r, dest)
    \/ \E r \in Requests : GetBalanceResolves(r)
    \/ \E r \in Requests, e \in Errors : GetBalanceThrows(r, e)
    \/ \E r \in Requests, quote \in GasPrices : GetGasPriceResolves(r, quote)
    \/ \E r \in Requests, e \in Errors : GetGasPriceThrows(r, e)
    \/ \E r \in Requests : SendTransactionResolves(r)
    \/ \E r \in Requests, e \in Errors : SendTransactionThrows(r, e)

Spec == Init /\ [][Next]_vars

\* ================================================================ properties
Posted(r) == req[r].pc # "idle"
Done(r) == req[r].pc = "done"
Has(r, field) == field \in DOMAIN req[r].json
Configured == Truthy(PRIVATE_KEY)

\* C1: a request that read balance B and gas price P with B < P*21000 or
\* B = P*21000 never calls send and is answered 200 with a report (a message
\* and the balance), not with an error.
C1_SkipNeverSends ==
    \A r \in Requests :
        (req[r].reads = 2 /\ req[r].balance <= req[r].gasPrice * GasLimit) =>
            /\ req[r].sendCalls = 0
            /\ Done(r) /\ req[r].responses = 1
            /\ req[r].status = 200
            /\ Has(r, "message") /\ Has(r, "balance")
            /\ ~Has(r, "error") /\ ~Has(r, "transactionHash")

\* one request skipped on B < gasCost and another on B = gasCost > 0
C1_Witness ==
    \E r1, r2 \in Requests :
        /\ Done(r1) /\ req[r1].reads = 2
        /\ req[r1].balance < req[r1].gasPrice * GasLimit
        /\ Done(r2) /\ req[r2].reads = 2
        /\ req[r2].balance = req[r2].gasPrice * GasLimit

\* C2: a request that read B and P with B > P*21000 calls send with value
\* B - P*21000, gasPrice P and gasLimit 21000, so value + gasCost = B, and the
\* amountSent of its success answer is the decimal ether string of that value.
C2_SweepableSendsExactAmount ==
    \A r \in Requests :
        LET q == req[r]
            gasCost == q.gasPrice * GasLimit
        IN  (q.reads = 2 /\ q.balance > gasCost) =>
                /\ q.sendCalls = 1
                /\ q.tx.value = q.balance - gasCost
                /\ q.tx.gasPrice = q.gasPrice
                /\ q.tx.gasLimit = GasLimit
                /\ q.tx.value + gasCost = q.balance
                /\ (Done(r) /\ q.status = 200) =>
                        /\ Has(r, "amountSent")
                        /\ Len(q.json.amountSent.frac) \in 1..Decimals
                        /\ parseEther(q.json.amountSent) = q.balance - gasCost

\* a submitted sweep of an amount whose ether string has many decimals
C2_Witness ==
    \E r \in Requests :
        /\ Done(r) /\ req[r].status = 200 /\ Has(r, "transactionHash")
        /\ req[r].tx.value = GasLimit + 1

\* C3 as stated: a destination string that is not a well-formed address is
\* answered 400 whether or not a signing key was supplied.
C3_Original ==
    \A r \in Requests :
        (Posted(r) /\ req[r].body # Undefined /\ req[r].body \notin WellFormed) =>
            (Done(r) /\ req[r].status = 400)

\* C3 amended: a non-empty destination string that is not a well-formed
\* address is answered 400 when a signing key was supplied and 503 when none
\* was.
C3_InvalidDestinationRejected ==
    \A r \in Requests :
        (Posted(r) /\ Truthy(req[r].body) /\ req[r].body \notin WellFormed) =>
            /\ Done(r) /\ req[r].responses = 1
            /\ req[r].status = IF Configured THEN 400 ELSE 503

C3_Witness ==
    \E r \in Requests :
        /\ Configured /\ req[r].body = "not-an-address"
        /\ Done(r) /\ req[r].status = 400

\* C4: with no signing key every POST is answered 503, whatever its body,
\* and send is never called.
C4_UnconfiguredAlways503 ==
    ~Configured =>
        \A r \in Requests :
            /\ req[r].sendCalls = 0
            /\ Posted(r) => (Done(r) /\ req[r].status = 503 /\ req[r].responses = 1)

C4_Witness ==
    /\ ~Configured
    /\ \E r1, r2 \in Requests :
        /\ Done(r1) /\ req[r1].body = "not-an-address"
        /\ Done(r2) /\ req[r2].body = AddrOther

Skipped(r) ==
    Done(r) /\ req[r].status = 200 /\ req[r].reads = 2 /\ req[r].sendCalls = 0
Submitted(r) ==
    Done(r) /\ req[r].status = 200 /\ req[r].sendCalls > 0
SubmittedFields ==
    {"message", "transactionHash", "amountSent", "destination", "networkLink"}

\* C5 as stated: every skipped sweep answers with message, balance and gasCost
\* and no transactionHash; every submitted sweep answers with message,
\* transactionHash, amountSent, destination and networkLink.
C5_Original ==
    \A r \in Requests :
        /\ Skipped(r) =>
            /\ {"message", "balance", "gasCost"} \subseteq DOMAIN req[r].json
            /\ ~Has(r, "transactionHash")
        /\ Submitted(r) => SubmittedFields \subseteq DOMAIN req[r].json

\* C5 amended: a skipped sweep answers with message and balance and no
\* transactionHash, and with gasCost exactly when the balance was below the
\* gas cost (the zero-amount report has no gasCost); a submitted sweep answers
\* with message, transactionHash, amountSent, destination and networkLink.
C5_ResponseShapes ==
    \A r \in Requests :
        /\ Skipped(r) =>
            /\ {"message", "balance"} \subseteq DOMAIN req[r].json
            /\ ~Has(r, "transactionHash")
            /\ Has(r, "gasCost") <=> (req[r].balance < req[r].gasPrice * GasLimit)
        /\ Submitted(r) => DOMAIN req[r].json = SubmittedFields

\* a zero-amount skip next to a submitted sweep
C5_Witness ==
    \E r1, r2 \in Requests :
        /\ Skipped(r1) /\ req[r1].balance = req[r1].gasPrice * GasLimit
        /\ Submitted(r2)

\* C6: when the balance query, the gas-price query or the send throws, the
\* request is answered 500 with the thrown reason as details, or the thrown
\* message when there is no reason, and with no transaction hash.
C6_ThrownIs500WithDetails ==
    \A r \in Requests :
        req[r].threwAt # "none" =>
            /\ Done(r) /\ req[r].status = 500 /\ req[r].responses = 1
            /\ ~Has(r, "transactionHash")
            /\ Has(r, "error") /\ Has(r, "details")
            /\ Truthy(req[r].err.reason) => req[r].json.details = req[r].err.reason
            /\ (~Truthy(req[r].err.reason) /\ Truthy(req[r].err.message)) =>
                    req[r].json.details = req[r].err.message

\* a failed balance query that carried a reason next to a failed send that
\* carried only a message
C6_Witness ==
    \E r1, r2 \in Requests :
        /\ req[r1].threwAt = "getBalance" /\ Truthy(req[r1].err.reason)
        /\ req[r2].threwAt = "sendTransaction" /\ ~Truthy(req[r2].err.reason)
        /\ Truthy(req[r2].err.message)

\* the destination a request asks for: its override, else the default
Effective(r) == IF Truthy(req[r].body) THEN req[r].body ELSE DESTINATION_ADDRESS

\* C7: the `to` of every transaction handed to send is the request's
\* override when it has one and the default otherwise, and is well-formed; a
\* request whose effective destination is malformed makes no chain-client
\* call (no balance read, no gas-price read, no send).
C7_DestinationResolvedAndValid ==
    \A r \in Requests :
        /\ req[r].sendCalls > 0 =>
            /\ req[r].tx.to = Effective(r)
            /\ req[r].tx.to \in WellFormed
        /\ (Posted(r) /\ Effective(r) \notin WellFormed) =>
            /\ req[r].balanceReads = 0
            /\ req[r].gasReads = 0
            /\ req[r].sendCalls = 0

\* one send to an override, one send to the default
C7_Witness ==
    \E r1, r2 \in Requests :
        /\ req[r1].sendCalls = 1 /\ req[r1].body = AddrOther
        /\ req[r2].sendCalls = 1 /\ req[r2].body = Undefined

\* C8: every /health answer is 200, says isSweepConfigured exactly when a
\* signing key was supplied, carries the placeholder wallet address when none
\* was, and all /health answers of a run are the same whatever sweeps ran.
C8_HealthStable ==
    /\ Cardinality(health) <= 1
    /\ \A h \in health :
        /\ h.status = 200
        /\ h.json.status = "ok"
        /\ h.json.isSweepConfigured = Configured
        /\ ~Configured => h.json.walletAddress = WalletPlaceholder

\* /health answered in a server started with an empty key, after sweeps
C8_Witness ==
    /\ health # {}
    /\ PRIVATE_KEY = ""
    /\ \A r \in Requests : Done(r)

\* C9: two requests that both called send after reading the same balance B
\* each submitted B minus their own gas cost, so together B twice less both
\* gas costs: nothing in the sweep path makes the second wait for the first.
C9_BothSubmitFullBalance ==
    \A r1, r2 \in Requests :
        (r1 # r2 /\ req[r1].sendCalls > 0 /\ req[r2].sendCalls > 0
            /\ req[r1].balance = req[r2].balance) =>
            req[r1].tx.value + req[r2].tx.value =
                2 * req[r1].balance - (req[r1].gasPrice + req[r2].gasPrice) * GasLimit

\* both sends are outstanding, both on the balance the wallet still holds,
\* and their values add up to more than that balance
C9_Witness ==
    \E r1, r2 \in Requests :
        /\ r1 # r2
        /\ req[r1].pc = "sendTransaction" /\ req[r2].pc = "sendTransaction"
        /\ req[r1].balance = chainBalance /\ req[r2].balance = chainBalance
        /\ req[r1].tx.value + req[r2].tx.value > chainBalance

\* C10: a request calls send at most once and is answered at most once; a
\* failed send leaves it answered, with the error, after exactly one call.
C10_NoRetry ==
    \A r \in Requests :
        /\ req[r].sendCalls <= 1
        /\ req[r].responses <= 1
        /\ req[r].threwAt = "sendTransaction" =>
            /\ Done(r) /\ req[r].status = 500
            /\ req[r].responses = 1 /\ req[r].sendCalls = 1

C10_Witness ==
    \E r \in Requests : req[r].threwAt = "sendTransaction" /\ Done(r)

====
